---------------------------- MODULE Spec2Model ----------------------------
(***************************************************************************)
(* A model of the layered configuration container of phpboyscout/config:   *)
(* the loaders (Load, LoadEmbed, NewFilesContainer, NewReaderContainer),   *)
(* the settings store they drive (spf13/viper, modelled by what the calls  *)
(* made in the sources do: ReadInConfig replaces the store, MergeInConfig  *)
(* deep-merges into it, WatchConfig re-reads the config file and then runs *)
(* the change handler), and the notification round of watchConfig.         *)
(***************************************************************************)
EXTENDS Integers, Sequences, FiniteSets, TLC

VARIABLES
    fs,       \* the file system / embedded reader: path -> File
    call,     \* the entry point called and its arguments
    c,        \* the container the program holds: <<>> (nil) or <<container>>
    err,      \* the error the entry point returned
    reads,    \* the ReadFile calls made on the fs capability, in order
    pending,  \* change events of the watched file not yet handled
    ev,       \* the event being handled: the store before and after its reload
    hpc,      \* the change handler: "idle" or "loop" (spawning, then waiting)
    snap,     \* the observers the handler's range loop iterates over
    nxt,      \* the index of the next observer the loop spawns a task for
    wg,       \* the WaitGroup counter
    tpc,      \* per task of the round: where its goroutine stands
    invoked,  \* per task of the round: the Run calls made on its observer
    seen,     \* per task of the round: the store its observer read
    rounds,   \* the number of handler calls that have returned
    hist,     \* per returned handler call: the observers it ranged over and
              \* the Run calls its tasks made
    sub,      \* the subtree container the program holds: <<>> or <<container>>
    subcall   \* the Sub call that returned it: the container called, the key

roundVars == <<pending, ev, hpc, snap, nxt, wg, tpc, invoked, seen, rounds>>

subVars == <<sub, subcall>>

vars == <<fs, call, c, err, reads, roundVars, hist, subVars>>

(***************************************************************************)
(* Bounds                                                                  *)
(***************************************************************************)
MaxPaths == 3
MaxSources == 3
MaxObservers == 2
MaxEvents == 2

(***************************************************************************)
(* Settings documents: a YAML document is a tree; the model keeps two      *)
(* levels (top-level keys, and keys nested under a top-level map).         *)
(***************************************************************************)
NoValue == "<nil>"
Scalars == {"value", "value2"}
TopKeys == {"yaml", "test"}
SubKeys == {"key", "more"}

EmptySub == [s \in SubKeys |-> NoValue]
NoneNode == [kind |-> "none", val |-> NoValue, sub |-> EmptySub]
ScalarNode(v) == [kind |-> "scalar", val |-> v, sub |-> EmptySub]
MapNode(m) == [kind |-> "map", val |-> NoValue, sub |-> m]
EmptyDoc == [k \in TopKeys |-> NoneNode]

Nodes ==
    {NoneNode} \cup {ScalarNode(v) : v \in Scalars}
        \cup {MapNode(m) : m \in [SubKeys -> Scalars \cup {NoValue}]}

\* A file (or the bytes behind a reader): absent, present but failing to
\* read, readable but not parseable, or readable and holding a document.
File(kind, doc) == [kind |-> kind, doc |-> doc]
AbsentFile == File("absent", EmptyDoc)
UnreadableFile == File("unreadable", EmptyDoc)
MalformedFile == File("malformed", EmptyDoc)
OkFile(d) == File("ok", d)

Paths == {"first.yml", "second.yml", "third.yml"}

RECURSIVE SeqsUpTo(_, _)
SeqsUpTo(S, n) ==
    IF n = 0 THEN {<<>>}
    ELSE LET shorter == SeqsUpTo(S, n - 1)
         IN  shorter \cup {Append(s, x) : s \in {t \in shorter : Len(t) = n - 1}, x \in S}

(***************************************************************************)
(* The settings store (viper)                                              *)
(***************************************************************************)
\* viper.New(): an empty store with no config file and no watch.
NewViper ==
    [config |-> EmptyDoc, configFile |-> "", onConfigChange |-> FALSE,
     watching |-> FALSE, watched |-> "", reads |-> <<>>]

\* mergeMaps(src, tgt) one level down: both values are maps of scalars.
mergeSub(src, tgt) ==
    [s \in SubKeys |-> IF src[s] = NoValue THEN tgt[s] ELSE src[s]]

\* viper's mergeMaps(src, tgt): a key new to tgt is copied; where tgt holds
\* a map, a map from src is merged into it and any other value from src is
\* dropped (logged "Could not cast sv to map"); otherwise src overwrites.
mergeMaps(src, tgt) ==
    [k \in TopKeys |->
        IF src[k].kind = "none" THEN tgt[k]
        ELSE IF tgt[k].kind = "none" THEN src[k]
        ELSE IF tgt[k].kind = "map"
             THEN IF src[k].kind = "map"
                  THEN MapNode(mergeSub(src[k].sub, tgt[k].sub))
                  ELSE tgt[k]
        ELSE src[k]]

\* The error of reading and decoding a file's bytes ("nil": none).
ReadError(f) ==
    CASE f.kind \in {"absent", "unreadable"} -> "PathError"
      [] f.kind = "malformed" -> "ConfigParseError"
      [] OTHER -> "nil"

\* viper.ReadInConfig(): read the config file; on success the store is
\* REPLACED by the file's document, on failure it is left as it was.
ReadInConfig(v, files) ==
    LET f == files[v.configFile]
        w == [v EXCEPT !.reads = Append(@, v.configFile)]
    IN  [v   |-> IF ReadError(f) = "nil" THEN [w EXCEPT !.config = f.doc] ELSE w,
         err |-> ReadError(f)]

\* viper.MergeInConfig(): read the config file; on success its document is
\* merged into the store, on failure the store is left as it was.
MergeInConfig(v, files) ==
    LET f == files[v.configFile]
        w == [v EXCEPT !.reads = Append(@, v.configFile)]
    IN  [v   |-> IF ReadError(f) = "nil"
                 THEN [w EXCEPT !.config = mergeMaps(f.doc, @)] ELSE w,
         err |-> ReadError(f)]

\* viper.ReadConfig(reader) / viper.MergeConfig(reader): the same from bytes.
ReadConfig(v, r) ==
    [v   |-> IF ReadError(r) = "nil" THEN [v EXCEPT !.config = r.doc] ELSE v,
     err |-> ReadError(r)]

MergeConfig(v, r) ==
    [v   |-> IF ReadError(r) = "nil"
             THEN [v EXCEPT !.config = mergeMaps(r.doc, @)] ELSE v,
     err |-> ReadError(r)]

SetConfigFile(v, f) == [v EXCEPT !.configFile = f]

(***************************************************************************)
(* Container construction                                                  *)
(***************************************************************************)
initContainer ==
    [ID |-> "", viper |-> NewViper, observers |-> <<>>, warnings |-> 0]

\* handleReadFileError: both kinds of error are only logged as a warning.
handleReadFileError(cn, r) ==
    [cn EXCEPT !.viper = r.v,
               !.warnings = IF r.err = "nil" THEN @ ELSE @ + 1]

\* watchConfig: registers the change handler and starts the watch; viper
\* watches the file its configFile names when WatchConfig is called.
watchConfig(cn) ==
    [cn EXCEPT !.viper.onConfigChange = TRUE,
               !.viper.watching = TRUE,
               !.viper.watched = cn.viper.configFile]

\* MergeFiles with every later file READ (replacing the store) instead of
\* merged into it.
RECURSIVE MergeFiles_Replaces(_, _, _, _)
MergeFiles_Replaces(cn, files, configFiles, i) ==
    IF i > Len(configFiles) THEN cn
    ELSE LET f  == configFiles[i]
             c1 == [cn EXCEPT !.ID = cn.ID \o ";" \o f,
                              !.viper = SetConfigFile(cn.viper, f)]
             c2 == handleReadFileError(c1, ReadInConfig(c1.viper, files))
         IN  MergeFiles_Replaces(c2, files, configFiles, i + 1)

\* MergeFiles giving up on the remaining files at the first one that
\* fails to read or parse.
RECURSIVE MergeFiles_StopsAtFailure(_, _, _, _)
MergeFiles_StopsAtFailure(cn, files, configFiles, i) ==
    IF i > Len(configFiles) THEN cn
    ELSE LET f  == configFiles[i]
             c1 == [cn EXCEPT !.ID = cn.ID \o ";" \o f,
                              !.viper = SetConfigFile(cn.viper, f)]
             r  == MergeInConfig(c1.viper, files)
             c2 == handleReadFileError(c1, r)
         IN  IF r.err # "nil" THEN c2
             ELSE MergeFiles_StopsAtFailure(c2, files, configFiles, i + 1)

\* The loop over configFiles[1:] of NewFilesContainer, from index i.
RECURSIVE MergeFiles(_, _, _, _)
MergeFiles(cn, files, configFiles, i) ==
    IF i > Len(configFiles) THEN cn
    ELSE LET f  == configFiles[i]
             c1 == [cn EXCEPT !.ID = cn.ID \o ";" \o f,
                              !.viper = SetConfigFile(cn.viper, f)]
             c2 == handleReadFileError(c1, MergeInConfig(c1.viper, files))
         IN  MergeFiles(c2, files, configFiles, i + 1)

\* NewFilesContainer arming the watch as soon as one file is given.
NewFilesContainer_WatchesAny(files, configFiles) ==
    LET c0 == initContainer
        c1 == IF Len(configFiles) > 0
              THEN LET s == [c0 EXCEPT !.ID = configFiles[1],
                                       !.viper = SetConfigFile(c0.viper, configFiles[1])]
                   IN  handleReadFileError(s, ReadInConfig(s.viper, files))
              ELSE c0
    IN  IF Len(configFiles) > 0
        THEN watchConfig(MergeFiles(c1, files, configFiles, 2))
        ELSE c1

\* NewFilesContainer: read the first file, merge the others, and arm the
\* watch when more than one file was given.
NewFilesContainer(files, configFiles) ==
    LET c0 == initContainer
        c1 == IF Len(configFiles) > 0
              THEN LET s == [c0 EXCEPT !.ID = configFiles[1],
                                       !.viper = SetConfigFile(c0.viper, configFiles[1])]
                   IN  handleReadFileError(s, ReadInConfig(s.viper, files))
              ELSE c0
    IN  IF Len(configFiles) > 1
        THEN watchConfig(MergeFiles(c1, files, configFiles, 2))
        ELSE c1

\* MergeReaders numbering the readers by the index of the range loop
\* (i, not i+1).
RECURSIVE MergeReaders_IndexFromZero(_, _, _)
MergeReaders_IndexFromZero(cn, configReaders, i) ==
    IF i > Len(configReaders) THEN cn
    ELSE LET c1 == [cn EXCEPT !.ID = cn.ID \o ";" \o ToString(i - 2)]
             c2 == handleReadFileError(c1, MergeConfig(c1.viper, configReaders[i]))
         IN  MergeReaders_IndexFromZero(c2, configReaders, i + 1)

\* The loop over configReaders[1:] of NewReaderContainer, from index i.
RECURSIVE MergeReaders(_, _, _)
MergeReaders(cn, configReaders, i) ==
    IF i > Len(configReaders) THEN cn
    ELSE LET c1 == [cn EXCEPT !.ID = cn.ID \o ";" \o ToString(i - 1)]
             c2 == handleReadFileError(c1, MergeConfig(c1.viper, configReaders[i]))
         IN  MergeReaders(c2, configReaders, i + 1)

\* NewReaderContainer arming a watch when it merged readers, as
\* NewFilesContainer does for files.
NewReaderContainer_Watches(configReaders) ==
    LET c0 == initContainer
        c1 == IF Len(configReaders) > 0
              THEN LET s == [c0 EXCEPT !.ID = "0"]
                   IN  handleReadFileError(s, ReadConfig(s.viper, configReaders[1]))
              ELSE c0
    IN  IF Len(configReaders) > 1
        THEN watchConfig(MergeReaders(c1, configReaders, 2))
        ELSE c1

\* NewReaderContainer: read the first reader and merge the others; no
\* config file is set and no watch is armed.
NewReaderContainer(configReaders) ==
    LET c0 == initContainer
        c1 == IF Len(configReaders) > 0
              THEN LET s == [c0 EXCEPT !.ID = "0"]
                   IN  handleReadFileError(s, ReadConfig(s.viper, configReaders[1]))
              ELSE c0
    IN  IF Len(configReaders) > 1
        THEN MergeReaders(c1, configReaders, 2)
        ELSE c1

\* Container.Get(key): the store's value at a dotted key, given as the
\* sequence of its parts; a nested map reads as "<map>", a missing key as
\* NoValue.
Get(cn, key) ==
    LET n == cn.viper.config[key[1]]
    IN  IF Len(key) = 1
        THEN CASE n.kind = "scalar" -> n.val
               [] n.kind = "map" -> "<map>"
               [] OTHER -> NoValue
        ELSE IF n.kind = "map" THEN n.sub[key[2]] ELSE NoValue

(***************************************************************************)
(* Load and LoadEmbed                                                      *)
(***************************************************************************)
\* fs.Stat(path): nil when the file exists.
Stat(files, path) == IF files[path].kind = "absent" THEN "ErrNotExist" ELSE "nil"

\* Loadable without the existence check.
Loadable_Unfiltered(files, paths) == paths

\* The filter loop of Load.
Loadable(files, paths) == SelectSeq(paths, LAMBDA p : Stat(files, p) = "nil")

\* Load testing the requested paths, not the filtered ones, for emptiness.
Load_TestsRequested(paths, files, allowEmptyConfig) ==
    LET loadable == Loadable(files, paths)
    IN  IF ~allowEmptyConfig /\ Len(paths) = 0
        THEN [c |-> <<>>, err |-> "ErrNoFilesFound", reads |-> <<>>]
        ELSE LET cn == NewFilesContainer(files, loadable)
             IN  [c |-> <<cn>>, err |-> "nil", reads |-> cn.viper.reads]

\* Load surfacing a failed read or parse of a file as an error.
Load_SurfacesReadErrors(paths, files, allowEmptyConfig) ==
    LET loadable == Loadable(files, paths)
    IN  IF ~allowEmptyConfig /\ Len(loadable) = 0
        THEN [c |-> <<>>, err |-> "ErrNoFilesFound", reads |-> <<>>]
        ELSE LET cn == NewFilesContainer(files, loadable)
             IN  IF cn.warnings > 0
                 THEN [c |-> <<>>, err |-> "ReadError", reads |-> cn.viper.reads]
                 ELSE [c |-> <<cn>>, err |-> "nil", reads |-> cn.viper.reads]

Load(paths, files, allowEmptyConfig) ==
    LET loadable == Loadable(files, paths)
    IN  IF ~allowEmptyConfig /\ Len(loadable) = 0
        THEN [c |-> <<>>, err |-> "ErrNoFilesFound", reads |-> <<>>]
        ELSE LET cn == NewFilesContainer(files, loadable)
             IN  [c |-> <<cn>>, err |-> "nil", reads |-> cn.viper.reads]

\* EmbeddedFileReader.ReadFile(name): the bytes, or an error.
EmbedReadFile(files, name) ==
    IF files[name].kind \in {"absent", "unreadable"} THEN "ReadError" ELSE "nil"

\* LoadEmbedFrom remembering the first failure but reading the remaining
\* paths before it returns.
RECURSIVE LoadEmbedFrom_KeepsReading(_, _, _, _, _)
LoadEmbedFrom_KeepsReading(paths, files, i, configs, done) ==
    IF i > Len(paths)
    THEN LET bad == {k \in 1..Len(paths) : EmbedReadFile(files, paths[k]) # "nil"}
         IN  IF bad = {}
             THEN [c |-> <<NewReaderContainer(configs)>>, err |-> "nil", reads |-> done]
             ELSE [c |-> <<>>,
                   err |-> "failed to read embedded config file "
                             \o paths[CHOOSE k \in bad : \A j \in bad : k <= j],
                   reads |-> done]
    ELSE LoadEmbedFrom_KeepsReading(paths, files, i + 1,
                                    Append(configs, files[paths[i]]),
                                    Append(done, paths[i]))

\* LoadEmbedFrom treating bytes that do not parse as a failed read.
RECURSIVE LoadEmbedFrom_ParseFatal(_, _, _, _, _)
LoadEmbedFrom_ParseFatal(paths, files, i, configs, done) ==
    IF i > Len(paths)
    THEN [c |-> <<NewReaderContainer(configs)>>, err |-> "nil", reads |-> done]
    ELSE IF files[paths[i]].kind # "ok"
         THEN [c |-> <<>>,
               err |-> "failed to read embedded config file " \o paths[i],
               reads |-> Append(done, paths[i])]
         ELSE LoadEmbedFrom_ParseFatal(paths, files, i + 1,
                                       Append(configs, files[paths[i]]),
                                       Append(done, paths[i]))

\* The read loop of LoadEmbed from index i, with the readers and the
\* ReadFile calls so far.
RECURSIVE LoadEmbedFrom(_, _, _, _, _)
LoadEmbedFrom(paths, files, i, configs, done) ==
    IF i > Len(paths)
    THEN [c |-> <<NewReaderContainer(configs)>>, err |-> "nil", reads |-> done]
    ELSE IF EmbedReadFile(files, paths[i]) # "nil"
         THEN [c |-> <<>>,
               err |-> "failed to read embedded config file " \o paths[i],
               reads |-> Append(done, paths[i])]
         ELSE LoadEmbedFrom(paths, files, i + 1, Append(configs, files[paths[i]]),
                            Append(done, paths[i]))

LoadEmbed(paths, files) == LoadEmbedFrom(paths, files, 1, <<>>, <<>>)

(***************************************************************************)
(* The loaders as a state machine: one call on a chosen file system.       *)
(***************************************************************************)
\* File contents used for the loader runs.
FirstDoc == [EmptyDoc EXCEPT !["yaml"] = MapNode([EmptySub EXCEPT !["key"] = "value"])]

SecondDoc ==
    [EmptyDoc EXCEPT !["yaml"] = MapNode([EmptySub EXCEPT !["key"] = "value2",
                                                          !["more"] = "value"])]

LoadDocs == {FirstDoc, SecondDoc}

LoadFiles ==
    {AbsentFile, UnreadableFile, MalformedFile, OkFile(EmptyDoc)}
        \cup {OkFile(d) : d \in LoadDocs}

NoCall == [op |-> "none", paths |-> <<>>, allowEmptyConfig |-> FALSE]

\* No Sub call made yet.
NoSubCall == [on |-> "none", key |-> <<>>]

RECURSIVE SumSeq(_)
SumSeq(q) == IF q = <<>> THEN 0 ELSE Head(q) + SumSeq(Tail(q))

NoEvent == [pre |-> EmptyDoc, post |-> EmptyDoc, err |-> "nil", file |-> AbsentFile]

InitRound ==
    /\ pending = 0
    /\ ev = NoEvent
    /\ hpc = "idle"
    /\ snap = <<>>
    /\ nxt = 1
    /\ wg = 0
    /\ tpc = <<>>
    /\ invoked = <<>>
    /\ seen = <<>>
    /\ rounds = 0
    /\ hist = <<>>
    /\ sub = <<>>
    /\ subcall = NoSubCall

InitLoad ==
    /\ InitRound
    /\ fs \in [Paths -> LoadFiles]
    /\ call = NoCall
    /\ c = <<>>
    /\ err = "nil"
    /\ reads = <<>>

CallLoadWith(pathLists, allows) ==
    /\ call.op = "none"
    /\ \E paths \in pathLists, allowEmptyConfig \in allows :
         LET r == Load(paths, fs, allowEmptyConfig)
         IN  /\ call' = [op |-> "Load", paths |-> paths,
                         allowEmptyConfig |-> allowEmptyConfig]
             /\ c' = r.c
             /\ err' = r.err
             /\ reads' = r.reads
    /\ UNCHANGED <<fs, roundVars, hist, subVars>>

CallLoad == CallLoadWith(SeqsUpTo(Paths, MaxPaths), BOOLEAN)

CallLoadEmbed ==
    /\ call.op = "none"
    /\ \E paths \in SeqsUpTo(Paths, MaxPaths) :
         LET r == LoadEmbed(paths, fs)
         IN  /\ call' = [op |-> "LoadEmbed", paths |-> paths,
                         allowEmptyConfig |-> FALSE]
             /\ c' = r.c
             /\ err' = r.err
             /\ reads' = r.reads
    /\ UNCHANGED <<fs, roundVars, hist, subVars>>

NextLoad == CallLoad \/ CallLoadEmbed

SpecLoad == InitLoad /\ [][NextLoad]_vars

(***************************************************************************)
(* Merging: a container built from an ordered list of readable sources.    *)
(***************************************************************************)
\* Documents used as sources: "yaml" absent, a scalar or a nested map,
\* "test" absent or a scalar.
MergeDocs ==
    {d \in [TopKeys -> Nodes] :
        /\ d["yaml"].sub["more"] # "value2"
        /\ d["test"] \in {NoneNode, ScalarNode("value")}}

SourcePath(i) == "source" \o ToString(i) \o ".yml"

SourcePaths(n) == [i \in 1..n |-> SourcePath(i)]

\* The file system holding the sources srcs, the i-th at SourcePath(i).
SourceFs(srcs) ==
    [p \in {SourcePath(i) : i \in 1..Len(srcs)} |->
        OkFile(srcs[CHOOSE i \in 1..Len(srcs) : SourcePath(i) = p])]

InitMerge ==
    /\ InitRound
    /\ \E srcs \in SeqsUpTo(MergeDocs, MaxSources) : fs = SourceFs(srcs)
    /\ call = NoCall
    /\ c = <<>>
    /\ err = "nil"
    /\ reads = <<>>

CallNewFilesContainer ==
    /\ call.op = "none"
    /\ LET configFiles == SourcePaths(Cardinality(DOMAIN fs))
           cn == NewFilesContainer(fs, configFiles)
       IN  /\ call' = [op |-> "NewFilesContainer", paths |-> configFiles,
                       allowEmptyConfig |-> FALSE]
           /\ c' = <<cn>>
           /\ reads' = cn.viper.reads
    /\ UNCHANGED <<fs, err, roundVars, hist, subVars>>

CallNewReaderContainer ==
    /\ call.op = "none"
    /\ LET configFiles == SourcePaths(Cardinality(DOMAIN fs))
           cn == NewReaderContainer([i \in DOMAIN configFiles |-> fs[configFiles[i]]])
       IN  /\ call' = [op |-> "NewReaderContainer", paths |-> configFiles,
                       allowEmptyConfig |-> FALSE]
           /\ c' = <<cn>>
    /\ UNCHANGED <<fs, err, reads, roundVars, hist, subVars>>

NextMerge == CallNewFilesContainer \/ CallNewReaderContainer

SpecMerge == InitMerge /\ [][NextMerge]_vars

(***************************************************************************)
(* Observers                                                               *)
(***************************************************************************)
\* What an observer's handler does when run: only read the store, or read
\* it and report a problem by sending on the error channel.
Behaviours == {"read", "report"}

\* A value implementing Observable directly (as the tests' TestObserver).
Direct(f) == [wrapped |-> FALSE, handler |-> f]

\* Observer{f}: a plain function lifted to Observable.
Observer(f) == [wrapped |-> TRUE, handler |-> f]

\* o.Run(c, errs): Observer.Run calls the wrapped handler with the same
\* arguments; either way the handler is what runs.
Run(o) == o.handler

\* AddObserverTo putting the new observer in front of the list.
AddObserverTo_Prepends(cn, o) == [cn EXCEPT !.observers = <<o>> \o @]

\* Container.AddObserver(o): append o to the observer list.
AddObserverTo(cn, o) == [cn EXCEPT !.observers = Append(@, o)]

\* Container.GetObservers(): the observer list itself.
GetObservers(cn) == cn.observers

AddObserverFuncTo(cn, f) == [cn EXCEPT !.observers = Append(@, Observer(f))]

(***************************************************************************)
(* The watch: file changes, the reload and the notification round          *)
(***************************************************************************)
WatchPaths == {"first.yml", "second.yml"}

WatchFiles == {AbsentFile, MalformedFile} \cup {OkFile(d) : d \in LoadDocs}

InitWatch ==
    /\ InitRound
    /\ \E a \in {AbsentFile, OkFile(FirstDoc)}, b \in {AbsentFile, OkFile(SecondDoc)} :
         fs = [p \in WatchPaths |-> IF p = "first.yml" THEN a ELSE b]
    /\ call = NoCall
    /\ c = <<>>
    /\ err = "nil"
    /\ reads = <<>>

\* The path lists the watched container is loaded from.
WatchPathLists ==
    {<<>>, <<"first.yml">>, <<"first.yml", "second.yml">>, <<"second.yml", "first.yml">>}

CallLoadWatched == CallLoadWith(WatchPathLists, {TRUE})

AddObserver ==
    /\ c # <<>>
    /\ Len(c[1].observers) < MaxObservers
    /\ \E f \in Behaviours : c' = <<AddObserverTo(c[1], Direct(f))>>
    /\ UNCHANGED <<fs, call, err, reads, roundVars, hist, subVars>>

AddObserverFunc ==
    /\ c # <<>>
    /\ Len(c[1].observers) < MaxObservers
    /\ \E f \in Behaviours : c' = <<AddObserverFuncTo(c[1], f)>>
    /\ UNCHANGED <<fs, call, err, reads, roundVars, hist, subVars>>

\* The change events delivered so far: waiting, being handled, handled.
Events == pending + (IF hpc = "idle" THEN 0 ELSE 1) + rounds

\* A loaded file is rewritten with different content; fsnotify queues a
\* write event when a watch is armed on that file.
FileWrite ==
    /\ c # <<>>
    /\ \E p \in DOMAIN fs, f \in WatchFiles \ {AbsentFile} :
         /\ fs[p].kind # "absent"
         /\ \E i \in DOMAIN call.paths : call.paths[i] = p
         /\ f # fs[p]
         /\ fs' = [fs EXCEPT ![p] = f]
         /\ IF c[1].viper.watching /\ c[1].viper.watched = p
            THEN /\ Events < MaxEvents
                 /\ pending' = pending + 1
            ELSE pending' = pending
    /\ UNCHANGED <<call, c, err, reads, ev, hpc, snap, nxt, wg, tpc, invoked, seen, rounds, hist, subVars>>

\* The handler entered with the store as it stands, without the reload.
HandleEvent_NoReload ==
    /\ c # <<>>
    /\ c[1].viper.onConfigChange
    /\ pending > 0
    /\ hpc = "idle"
    /\ pending' = pending - 1
    /\ ev' = [pre |-> c[1].viper.config, post |-> c[1].viper.config,
              err |-> ReadError(fs[c[1].viper.configFile]),
              file |-> fs[c[1].viper.configFile]]
    /\ snap' = c[1].observers
    /\ nxt' = 1
    /\ wg' = 0
    /\ tpc' = [i \in DOMAIN c[1].observers |-> "unspawned"]
    /\ invoked' = [i \in DOMAIN c[1].observers |-> 0]
    /\ seen' = [i \in DOMAIN c[1].observers |-> <<>>]
    /\ hpc' = "loop"
    /\ UNCHANGED <<fs, call, c, err, reads, rounds, hist, subVars>>

\* The event loop answering all the events waiting with one handler call.
HandleEvent_Coalesces ==
    /\ c # <<>>
    /\ c[1].viper.onConfigChange
    /\ pending > 0
    /\ hpc = "idle"
    /\ LET r == ReadInConfig(c[1].viper, fs)
       IN  /\ c' = <<[c[1] EXCEPT !.viper = r.v]>>
           /\ ev' = [pre |-> c[1].viper.config, post |-> r.v.config,
                     err |-> r.err, file |-> fs[c[1].viper.configFile]]
    /\ pending' = 0
    /\ snap' = c[1].observers
    /\ nxt' = 1
    /\ wg' = 0
    /\ tpc' = [i \in DOMAIN c[1].observers |-> "unspawned"]
    /\ invoked' = [i \in DOMAIN c[1].observers |-> 0]
    /\ seen' = [i \in DOMAIN c[1].observers |-> <<>>]
    /\ hpc' = "loop"
    /\ UNCHANGED <<fs, call, err, reads, rounds, hist, subVars>>

\* The handler ranging over the observers of the subtree container as well
\* as its own.
HandleEvent_RunsSubtreeToo ==
    /\ c # <<>>
    /\ c[1].viper.onConfigChange
    /\ pending > 0
    /\ hpc = "idle"
    /\ LET r == ReadInConfig(c[1].viper, fs)
       IN  /\ c' = <<[c[1] EXCEPT !.viper = r.v]>>
           /\ ev' = [pre |-> c[1].viper.config, post |-> r.v.config,
                     err |-> r.err, file |-> fs[c[1].viper.configFile]]
    /\ pending' = pending - 1
    /\ LET all == c[1].observers \o (IF sub = <<>> THEN <<>> ELSE sub[1].observers)
       IN  /\ snap' = all
           /\ tpc' = [i \in DOMAIN all |-> "unspawned"]
           /\ invoked' = [i \in DOMAIN all |-> 0]
           /\ seen' = [i \in DOMAIN all |-> <<>>]
    /\ nxt' = 1
    /\ wg' = 0
    /\ hpc' = "loop"
    /\ UNCHANGED <<fs, call, err, reads, rounds, hist, subVars>>

\* viper's event loop takes one event of the watched file: it re-reads the
\* config file (ReadInConfig, an error is only logged) and then calls the
\* handler registered by watchConfig, which makes the channel and the
\* WaitGroup and starts ranging over c.observers.
HandleEvent ==
    /\ c # <<>>
    /\ c[1].viper.onConfigChange
    /\ pending > 0
    /\ hpc = "idle"
    /\ LET r == ReadInConfig(c[1].viper, fs)
       IN  /\ c' = <<[c[1] EXCEPT !.viper = r.v]>>
           /\ ev' = [pre |-> c[1].viper.config, post |-> r.v.config,
                     err |-> r.err, file |-> fs[c[1].viper.configFile]]
    /\ pending' = pending - 1
    /\ snap' = c[1].observers
    /\ nxt' = 1
    /\ wg' = 0
    /\ tpc' = [i \in DOMAIN c[1].observers |-> "unspawned"]
    /\ invoked' = [i \in DOMAIN c[1].observers |-> 0]
    /\ seen' = [i \in DOMAIN c[1].observers |-> <<>>]
    /\ hpc' = "loop"
    /\ UNCHANGED <<fs, call, err, reads, rounds, hist, subVars>>

\* The loop reading the observer list afresh at every iteration.
Spawn_RangesLiveList ==
    /\ hpc = "loop"
    /\ nxt <= Len(c[1].observers)
    /\ snap' = c[1].observers
    /\ wg' = wg + 1
    /\ tpc' = [i \in DOMAIN c[1].observers |->
                 IF i = nxt THEN "ready"
                 ELSE IF i \in DOMAIN tpc THEN tpc[i] ELSE "unspawned"]
    /\ invoked' = [i \in DOMAIN c[1].observers |->
                     IF i \in DOMAIN invoked THEN invoked[i] ELSE 0]
    /\ seen' = [i \in DOMAIN c[1].observers |->
                  IF i \in DOMAIN seen THEN seen[i] ELSE <<>>]
    /\ nxt' = nxt + 1
    /\ UNCHANGED <<fs, call, c, err, reads, pending, ev, hpc, rounds, hist, subVars>>

\* One iteration of the range loop: wg.Add(1) and the go statement.
Spawn ==
    /\ hpc = "loop"
    /\ nxt <= Len(snap)
    /\ wg' = wg + 1
    /\ tpc' = [tpc EXCEPT ![nxt] = "ready"]
    /\ nxt' = nxt + 1
    /\ UNCHANGED <<fs, call, c, err, reads, pending, ev, hpc, snap, invoked, seen, rounds, hist, subVars>>

\* A task calls o.Run(c, errs): the observer reads the store and returns,
\* or goes on to send on errs.  The channel is unbuffered (make(chan error))
\* and neither the handler nor an observer receives from it, so a task that
\* sends stays in the send.
TaskRun(i) ==
    /\ tpc[i] = "ready"
    /\ invoked' = [invoked EXCEPT ![i] = @ + 1]
    /\ seen' = [seen EXCEPT ![i] = <<c[1].viper.config>>]
    /\ tpc' = [tpc EXCEPT ![i] =
                 IF Run(snap[i]) = "report" THEN "sending" ELSE "returned"]
    /\ UNCHANGED <<fs, call, c, err, reads, pending, ev, hpc, snap, nxt, wg, rounds, hist, subVars>>

\* A task ending without wg.Done().
TaskDone_NoSignal(i) ==
    /\ tpc[i] = "returned"
    /\ tpc' = [tpc EXCEPT ![i] = "done"]
    /\ UNCHANGED <<fs, call, c, err, reads, pending, ev, hpc, snap, nxt, wg, invoked, seen, rounds, hist, subVars>>

\* o.Run has returned: wg.Done().
TaskDone(i) ==
    /\ tpc[i] = "returned"
    /\ wg' = wg - 1
    /\ tpc' = [tpc EXCEPT ![i] = "done"]
    /\ UNCHANGED <<fs, call, c, err, reads, pending, ev, hpc, snap, nxt, invoked, seen, rounds, hist, subVars>>

\* The handler returning after the loop without waiting for the tasks.
HandlerReturn_NoWait ==
    /\ hpc = "loop"
    /\ nxt > Len(snap)
    /\ hpc' = "idle"
    /\ rounds' = rounds + 1
    /\ hist' = Append(hist, [n |-> Len(snap), inv |-> SumSeq(invoked)])
    /\ ev' = NoEvent
    /\ snap' = <<>>
    /\ nxt' = 1
    /\ tpc' = <<>>
    /\ invoked' = <<>>
    /\ seen' = <<>>
    /\ UNCHANGED <<fs, call, c, err, reads, pending, wg, subVars>>

\* wg.Wait() returns once the counter is zero, and the handler with it; its
\* locals (the channel, the WaitGroup, the loop) are gone.
HandlerReturn ==
    /\ hpc = "loop"
    /\ nxt > Len(snap)
    /\ wg = 0
    /\ hpc' = "idle"
    /\ rounds' = rounds + 1
    /\ hist' = Append(hist, [n |-> Len(snap), inv |-> SumSeq(invoked)])
    /\ ev' = NoEvent
    /\ snap' = <<>>
    /\ nxt' = 1
    /\ tpc' = <<>>
    /\ invoked' = <<>>
    /\ seen' = <<>>
    /\ UNCHANGED <<fs, call, c, err, reads, pending, wg, subVars>>

\* The steps of a notification round.
RoundStep ==
    \/ Spawn
    \/ \E i \in DOMAIN tpc : TaskRun(i)
    \/ \E i \in DOMAIN tpc : TaskDone(i)
    \/ HandlerReturn

NextWatch ==
    \/ CallLoadWatched
    \/ AddObserver
    \/ AddObserverFunc
    \/ FileWrite
    \/ HandleEvent
    \/ RoundStep

SpecWatch == InitWatch /\ [][NextWatch]_vars

(***************************************************************************)
(* Has and Sub: the accessors that go through the store's key lookup, and  *)
(* the subtree containers.                                                 *)
(***************************************************************************)
\* The keys of the model's documents, as the sequences of their parts.
KeyPaths == {<<k>> : k \in TopKeys} \cup {<<k, s>> : k \in TopKeys, s \in SubKeys}

\* Has looking the whole dotted key up among the top-level keys only.
Has_TopLevelOnly(cn, key) == Len(key) = 1 /\ Get(cn, key) # NoValue

\* Container.Has(key): viper.InConfig, true when the lookup of the key's
\* path in the loaded configuration finds a value (a nested map included).
Has(cn, key) == Get(cn, key) # NoValue

\* The dotted form of a key.
KeyString(key) == IF Len(key) = 1 THEN key[1] ELSE key[1] \o "." \o key[2]

\* A nil *viper.Viper.
NilViper == [nil |-> TRUE]

\* viper.Sub returning a new, empty store for a nested map.
ViperSub_Empty(cn, key) ==
    IF Get(cn, key) = "<map>"
    THEN [NewViper EXCEPT !.config = [s \in SubKeys |-> NoneNode]]
    ELSE NilViper

\* viper.Sub(key): a new store holding the nested map found at key, and nil
\* when the key is missing or holds a value that is not a map.
ViperSub(cn, key) ==
    IF Get(cn, key) = "<map>"
    THEN [NewViper EXCEPT !.config =
             [s \in SubKeys |->
                 LET x == cn.viper.config[key[1]].sub[s]
                 IN  IF x = NoValue THEN NoneNode ELSE ScalarNode(x)]]
    ELSE NilViper

\* Sub handing the subtree the observer list of its parent.
Sub_SharesObservers(cn, key) ==
    [ID |-> cn.ID \o "#" \o KeyString(key), viper |-> ViperSub(cn, key),
     observers |-> cn.observers, warnings |-> 0]

\* Container.Sub(key): a new container around viper.Sub(key), whatever that
\* returned.
Sub(cn, key) ==
    [ID |-> cn.ID \o "#" \o KeyString(key), viper |-> ViperSub(cn, key),
     observers |-> <<>>, warnings |-> 0]

\* Documents of the containers subtrees are taken from.
ScalarDoc == [k \in TopKeys |-> ScalarNode("value")]

SubDocs == {SecondDoc, ScalarDoc}

InitSub ==
    /\ InitRound
    /\ \E srcs \in SeqsUpTo(SubDocs, 2) : fs = SourceFs(srcs)
    /\ call = NoCall
    /\ c = <<>>
    /\ err = "nil"
    /\ reads = <<>>

\* Sub called on the container the loader returned.
CallSub ==
    /\ c # <<>>
    /\ sub = <<>>
    /\ \E key \in KeyPaths :
         /\ sub' = <<Sub(c[1], key)>>
         /\ subcall' = [on |-> "parent", key |-> key]
    /\ UNCHANGED <<fs, call, c, err, reads, roundVars, hist>>

\* Sub called on a subtree container (a chain of Sub calls).
CallSubOfSub ==
    /\ sub # <<>>
    /\ subcall.on = "parent"
    /\ sub[1].viper # NilViper
    /\ \E s \in SubKeys :
         /\ sub' = <<Sub(sub[1], <<s>>)>>
         /\ subcall' = [on |-> "subtree", key |-> <<s>>]
    /\ UNCHANGED <<fs, call, c, err, reads, roundVars, hist>>

\* An accessor (or Sub) called on a subtree container whose store is nil:
\* c.viper.Get dereferences the nil store and the call panics.
CallOnNilStore ==
    /\ sub # <<>>
    /\ sub[1].viper = NilViper
    /\ err = "nil"
    /\ err' = "panic: nil pointer dereference"
    /\ UNCHANGED <<fs, call, c, reads, roundVars, hist, subVars>>

AddObserverSub ==
    /\ sub # <<>>
    /\ Len(sub[1].observers) < MaxObservers
    /\ \E f \in Behaviours : sub' = <<AddObserverTo(sub[1], Direct(f))>>
    /\ UNCHANGED <<fs, call, c, err, reads, roundVars, hist, subcall>>

AddObserverFuncSub ==
    /\ sub # <<>>
    /\ Len(sub[1].observers) < MaxObservers
    /\ \E f \in Behaviours : sub' = <<AddObserverFuncTo(sub[1], f)>>
    /\ UNCHANGED <<fs, call, c, err, reads, roundVars, hist, subcall>>

NextSub ==
    \/ CallNewFilesContainer
    \/ CallNewReaderContainer
    \/ AddObserver
    \/ AddObserverFunc
    \/ CallSub
    \/ CallSubOfSub
    \/ CallOnNilStore
    \/ AddObserverSub
    \/ AddObserverFuncSub

SpecSub == InitSub /\ [][NextSub]_vars

(***************************************************************************)
(* Containers of either kind, their subtrees and the watch: a container    *)
(* loaded from files or from embedded readers, observers registered on it  *)
(* and on a subtree of it, and changes of the files.                       *)
(***************************************************************************)
InitHeld ==
    /\ InitRound
    /\ fs = [p \in WatchPaths |->
                IF p = "first.yml" THEN OkFile(FirstDoc) ELSE OkFile(SecondDoc)]
    /\ call = NoCall
    /\ c = <<>>
    /\ err = "nil"
    /\ reads = <<>>

CallLoadEmbedWatched ==
    /\ call.op = "none"
    /\ \E paths \in WatchPathLists :
         LET r == LoadEmbed(paths, fs)
         IN  /\ call' = [op |-> "LoadEmbed", paths |-> paths,
                         allowEmptyConfig |-> FALSE]
             /\ c' = r.c
             /\ err' = r.err
             /\ reads' = r.reads
    /\ UNCHANGED <<fs, roundVars, hist, subVars>>

\* Sub called on the container for a top-level key: "yaml" holds a nested
\* map, "test" is not in the files.
CallSubWatched ==
    /\ c # <<>>
    /\ sub = <<>>
    /\ \E k \in TopKeys :
         /\ sub' = <<Sub(c[1], <<k>>)>>
         /\ subcall' = [on |-> "parent", key |-> <<k>>]
    /\ UNCHANGED <<fs, call, c, err, reads, roundVars, hist>>

\* An observer registered on the subtree container; it reports on the
\* error channel, so a round that ran it would be left with a task in its
\* send.
AddReporterSub ==
    /\ sub # <<>>
    /\ Len(sub[1].observers) < MaxObservers
    /\ sub' = <<AddObserverTo(sub[1], Direct("report"))>>
    /\ UNCHANGED <<fs, call, c, err, reads, roundVars, hist, subcall>>

NextHeld ==
    \/ CallLoadWatched
    \/ CallLoadEmbedWatched
    \/ AddObserver
    \/ CallSubWatched
    \/ AddReporterSub
    \/ FileWrite
    \/ HandleEvent
    \/ RoundStep

SpecHeld == InitHeld /\ [][NextHeld]_vars

(***************************************************************************)
(* Properties of Load (checked under SpecLoad)                             *)
(***************************************************************************)
\* The requested paths that exist, in their order.
RECURSIVE Existing(_, _)
Existing(files, paths) ==
    IF paths = <<>> THEN <<>>
    ELSE (IF files[Head(paths)].kind # "absent" THEN <<Head(paths)>> ELSE <<>>)
             \o Existing(files, Tail(paths))

\* The identifiers joined with ';'.
RECURSIVE Joined(_)
Joined(ids) ==
    IF ids = <<>> THEN ""
    ELSE IF Len(ids) = 1 THEN ids[1]
    ELSE ids[1] \o ";" \o Joined(Tail(ids))

NoneExists == \A i \in DOMAIN call.paths : fs[call.paths[i]].kind = "absent"

\* C4: Load returns ErrNoFilesFound and a nil container whenever
\* allowEmptyConfig is false and no requested path passes the existence
\* check, the empty path list included.
C4_NoFilesFound ==
    (call.op = "Load" /\ ~call.allowEmptyConfig /\ NoneExists)
        => (err = "ErrNoFilesFound" /\ c = <<>>)

C4_Witness ==
    /\ call.op = "Load" /\ ~call.allowEmptyConfig
    /\ Len(call.paths) = 2 /\ NoneExists
    /\ err = "ErrNoFilesFound" /\ c = <<>>

\* C5: ErrNoFilesFound is the only error of Load: with allowEmptyConfig
\* true or some requested path existing it returns a container and no
\* error, whatever reading and parsing the existing files gives.
C5_OnlyNoFilesFound ==
    call.op = "Load" =>
        /\ err \in {"nil", "ErrNoFilesFound"}
        /\ (call.allowEmptyConfig \/ ~NoneExists) => (err = "nil" /\ c # <<>>)

C5_Witness ==
    /\ call.op = "Load" /\ ~call.allowEmptyConfig
    /\ \E i \in DOMAIN call.paths : fs[call.paths[i]].kind = "unreadable"
    /\ \E i \in DOMAIN call.paths : fs[call.paths[i]].kind = "malformed"
    /\ err = "nil" /\ c # <<>> /\ c[1].warnings = 2

\* C6: Load hands the container exactly the requested paths whose Stat
\* succeeds, in their order: these, and no others, are set as config file,
\* read, and joined into the identity.
C6_PassesExisting ==
    (call.op = "Load" /\ c # <<>>) =>
        /\ reads = Existing(fs, call.paths)
        /\ c[1].ID = Joined(Existing(fs, call.paths))
        /\ \A i \in DOMAIN reads : fs[reads[i]].kind # "absent"
        /\ c[1].viper.configFile # "" => fs[c[1].viper.configFile].kind # "absent"

C6_Witness ==
    /\ call.op = "Load" /\ c # <<>>
    /\ Len(call.paths) = 3
    /\ fs[call.paths[1]].kind = "ok"
    /\ fs[call.paths[2]].kind = "absent"
    /\ fs[call.paths[3]].kind = "ok"
    /\ call.paths[1] # call.paths[3]
    /\ reads = <<call.paths[1], call.paths[3]>>

(***************************************************************************)
(* Properties of LoadEmbed (checked under SpecLoad)                        *)
(***************************************************************************)
\* The positions of the paths whose ReadFile fails.
FailingReads == {i \in DOMAIN call.paths : fs[call.paths[i]].kind \in {"absent", "unreadable"}}

FirstFailing == CHOOSE i \in FailingReads : \A j \in FailingReads : i <= j

\* C8: LoadEmbed reads the paths in order, each entry at most once; at the
\* first failing ReadFile it returns a nil container and an error naming
\* that path, and reads no later path.
C8_FailsAtFirstUnreadable ==
    call.op = "LoadEmbed" =>
        IF FailingReads = {}
        THEN reads = call.paths
        ELSE /\ reads = SubSeq(call.paths, 1, FirstFailing)
             /\ c = <<>>
             /\ err = "failed to read embedded config file " \o call.paths[FirstFailing]

C8_Witness ==
    /\ call.op = "LoadEmbed" /\ Len(call.paths) = 3
    /\ FailingReads = {2, 3}
    /\ reads = SubSeq(call.paths, 1, 2)
    /\ c = <<>> /\ err # "nil"

\* C9: when every ReadFile succeeds (also for no paths at all) LoadEmbed
\* returns a container and no error, even if the bytes are empty or do not
\* parse.
C9_ParseFailureNotFatal ==
    (call.op = "LoadEmbed" /\ FailingReads = {}) => (c # <<>> /\ err = "nil")

C9_Witness ==
    /\ call.op = "LoadEmbed" /\ FailingReads = {}
    /\ \E i \in DOMAIN call.paths : fs[call.paths[i]].kind = "malformed"
    /\ \E i \in DOMAIN call.paths : fs[call.paths[i]] = OkFile(EmptyDoc)
    /\ c # <<>> /\ err = "nil" /\ c[1].warnings > 0

(***************************************************************************)
(* Properties of merging (checked under SpecMerge)                         *)
(***************************************************************************)
\* What a source document gives for a key ("<map>": a nested map).
Gives(d, key) ==
    LET n == d[key[1]]
    IN  IF Len(key) = 1
        THEN CASE n.kind = "scalar" -> n.val
               [] n.kind = "map" -> "<map>"
               [] OTHER -> NoValue
        ELSE IF n.kind = "map" THEN n.sub[key[2]] ELSE NoValue

Sources == [i \in DOMAIN call.paths |-> fs[call.paths[i]].doc]

Defining(key) == {i \in DOMAIN Sources : Gives(Sources[i], key) # NoValue}

LastDefining(key) == CHOOSE i \in Defining(key) : \A j \in Defining(key) : j <= i

Built == call.op \in {"NewFilesContainer", "NewReaderContainer"} /\ c # <<>>

\* C7 as stated: the merged store gives every key the value of the last
\* source that defines it.
C7_LastSourceWins ==
    Built => \A key \in KeyPaths :
        Get(c[1], key) =
            IF Defining(key) = {} THEN NoValue
            ELSE Gives(Sources[LastDefining(key)], key)

\* C7 amended: the same, except that a value that is not a map, given for
\* a key at which an earlier source holds a nested map, is dropped and the
\* key keeps the nested map.
C7_LastSourceWinsUnlessMapHeld ==
    Built => \A key \in KeyPaths :
        Get(c[1], key) =
            IF Defining(key) = {} THEN NoValue
            ELSE IF \E j \in 1..LastDefining(key) : Gives(Sources[j], key) = "<map>"
                 THEN "<map>"
                 ELSE Gives(Sources[LastDefining(key)], key)

C7_Witness ==
    /\ call.op = "NewFilesContainer" /\ c # <<>> /\ Len(call.paths) = 3
    /\ Gives(Sources[1], <<"yaml", "key">>) = "value"
    /\ Gives(Sources[1], <<"yaml", "more">>) = "value"
    /\ Gives(Sources[2], <<"yaml", "key">>) = "value2"
    /\ Gives(Sources[2], <<"yaml", "more">>) = NoValue
    /\ Gives(Sources[3], <<"yaml">>) = "value"
    /\ Get(c[1], <<"yaml", "key">>) = "value2"
    /\ Get(c[1], <<"yaml", "more">>) = "value"
    /\ Get(c[1], <<"yaml">>) = "<map>"

(***************************************************************************)
(* Properties of the watch and the notification round (under SpecWatch)    *)
(***************************************************************************)
\* C1: the round of one change event runs over the observers registered
\* before the event, invokes each of them exactly once, and the handler
\* returns only when every one of these invocations has completed.
C1_EachObserverOncePerRound ==
    /\ [](\A i \in DOMAIN invoked : invoked[i] <= 1)
    /\ [][/\ (hpc = "idle" /\ hpc' = "loop") => snap' = c[1].observers
          /\ (hpc = "loop" /\ hpc' = "idle") =>
                \A i \in DOMAIN snap : invoked[i] = 1 /\ tpc[i] = "done"]_vars

C1_Witness ==
    /\ hpc = "loop" /\ Len(snap) = 2 /\ nxt > Len(snap) /\ wg = 0
    /\ \A i \in DOMAIN snap : invoked[i] = 1 /\ tpc[i] = "done"
    /\ ENABLED HandlerReturn

\* C2 as stated: every observer invocation of a round reads the store
\* reloaded from the changed file, never the store of before the change.
C2_ObserversSeeReloadedStore ==
    \A i \in DOMAIN seen :
        seen[i] # <<>> => (ev.err = "nil" /\ seen[i][1] = ev.file.doc)

\* C2 amended: every observer invocation of a round reads the store as the
\* reload attempt of the triggering event left it, the same for all of
\* them: the document of the changed file when the reload succeeded, the
\* unchanged store of before the change when re-reading the file failed.
C2_ObserversSeeStoreAfterReload ==
    \A i \in DOMAIN seen :
        seen[i] # <<>> =>
            /\ seen[i][1] = ev.post
            /\ ev.post = IF ev.err = "nil" THEN ev.file.doc ELSE ev.pre

C2_Witness ==
    /\ hpc = "loop" /\ Len(snap) = 2
    /\ seen[1] # <<>> /\ seen[2] # <<>>
    /\ ev.err = "nil" /\ ev.pre # ev.post
    /\ seen[1][1] = ev.file.doc /\ seen[2][1] = ev.file.doc

\* C3: a round in which an observer reports a problem by sending on the
\* error channel still completes: while an observer is in its send, the
\* round can take a further step (the send ends, a task finishes, the
\* handler returns).
C3_RoundCompletesDespiteReport ==
    (\E i \in DOMAIN tpc : tpc[i] = "sending") => ENABLED RoundStep

C11_WatchesFirstLoaded ==
    (c # <<>> /\ c[1].viper.watching) =>
        c[1].viper.watched = Existing(fs, call.paths)[1]

\* C12: a container built from a single existing config file, on which
\* observers are registered, notifies them of a later change of that file:
\* while the store still lacks the file's new valid content, a change event
\* is waiting or a round is running.
C12_SingleFileChangeNotifies ==
    (/\ c # <<>>
     /\ Len(call.paths) = 1
     /\ Len(c[1].observers) > 0
     /\ fs[call.paths[1]].kind = "ok"
     /\ fs[call.paths[1]].doc # c[1].viper.config)
        => (pending > 0 \/ hpc = "loop")

(***************************************************************************)
(* Properties of Sub and of the observer list (under SpecSub)              *)
(***************************************************************************)
\* C13: every container the loaders and any chain of Sub calls return has
\* a settings store that is not nil, also for a key the store does not
\* hold, and no accessor called on it fails.
C13_StoreNeverNil ==
    /\ \A i \in DOMAIN c : c[i].viper # NilViper
    /\ \A i \in DOMAIN sub : sub[i].viper # NilViper
    /\ err # "panic: nil pointer dereference"

\* C14: Sub(key) returns a container whose identity is that of the
\* container it is called on, then '#', then key, and whose observer list
\* is empty, and it leaves the parent as it was; registering an observer on
\* the parent leaves the subtree as it was, and registering one on the
\* subtree leaves the parent as it was.
C14_SubIdentityAndOwnObservers ==
    [][/\ (subcall' # subcall) =>
            LET on == IF subcall'.on = "parent" THEN c[1] ELSE sub[1]
            IN  /\ sub'[1].ID = on.ID \o "#" \o KeyString(subcall'.key)
                /\ sub'[1].observers = <<>>
                /\ c' = c
       /\ (c # <<>> /\ c' # c) => sub' = sub
       /\ (subcall' = subcall /\ sub' # sub) => c' = c]_vars

C14_Witness ==
    /\ c # <<>> /\ sub # <<>>
    /\ subcall = [on |-> "parent", key |-> <<"yaml", "more">>]
    /\ c[1].ID = "source1.yml;source2.yml"
    /\ sub[1].ID = "source1.yml;source2.yml#yaml.more"
    /\ Len(c[1].observers) = 2
    /\ sub[1].observers = <<Observer("report")>>

\* C15: for a key k at which the store holds a nested map, Get(r) on
\* Sub(k) equals Get(k.r) on the parent, for every key r below k.
C15_SubGetIsNestedGet ==
    (sub # <<>> /\ subcall.on = "parent" /\ Get(c[1], subcall.key) = "<map>") =>
        \A s \in SubKeys :
            Get(sub[1], <<s>>) = Get(c[1], subcall.key \o <<s>>)

C15_Witness ==
    /\ sub # <<>> /\ subcall = [on |-> "parent", key |-> <<"yaml">>]
    /\ Len(call.paths) = 2
    /\ Get(c[1], <<"yaml", "key">>) = "value2"
    /\ Get(sub[1], <<"key">>) = "value2"
    /\ Get(sub[1], <<"more">>) = "value"

\* C16: the observer list only grows, by one entry at its end per
\* registration, so GetObservers gives the registered observers in call
\* order and no reload or round removes or reorders any; and an entry made
\* by AddObserverFunc(f) runs f just as an entry given to AddObserver does.
C16_ObserversAppendOnly ==
    /\ [](\A i \in DOMAIN tpc :
             tpc[i] \in {"sending", "returned", "done"} =>
                 (tpc[i] = "sending" <=> snap[i].handler = "report"))
    /\ [][c # <<>> =>
             /\ c' # <<>>
             /\ \/ GetObservers(c'[1]) = GetObservers(c[1])
                \/ /\ Len(GetObservers(c'[1])) = Len(GetObservers(c[1])) + 1
                   /\ SubSeq(GetObservers(c'[1]), 1, Len(GetObservers(c[1])))
                         = GetObservers(c[1])]_vars

C16_Witness ==
    /\ c # <<>> /\ rounds = 1 /\ hpc = "loop"
    /\ GetObservers(c[1]) = <<Observer("read"), Direct("report")>>
    /\ snap = GetObservers(c[1])
    /\ tpc = <<"done", "sending">>

StepsLeft(t) ==
    CASE t = "unspawned" -> 4
      [] t = "ready" -> 3
      [] t = "sending" -> 2
      [] t = "returned" -> 1
      [] OTHER -> 0

\* The steps the round still has to take: those of its tasks, and the
\* handler's return.
RoundMeasure ==
    IF hpc = "idle" THEN 0
    ELSE 1 + SumSeq([i \in DOMAIN tpc |-> StepsLeft(tpc[i])])

\* The launched tasks that have not signalled completion.
Unsignalled == {i \in DOMAIN tpc : tpc[i] \in {"ready", "sending", "returned"}}

\* C18: a round that has started runs to completion when every Run call
\* returns: the wait counter is the number of launched tasks that have not
\* yet signalled (each signals once), while the round runs one of its steps
\* can be taken, every such step brings the round nearer its end, and no
\* step takes a task back or ends the round before all tasks are done.
C18_RoundRunsToCompletion ==
    /\ [](hpc = "loop" => wg = Cardinality(Unsignalled))
    /\ []((hpc = "loop" /\ \A i \in DOMAIN snap : Run(snap[i]) = "read")
             => ENABLED RoundStep)
    /\ [][hpc = "loop" =>
             /\ RoundMeasure' <= RoundMeasure
             /\ <<hpc, snap, nxt, wg, tpc>>' # <<hpc, snap, nxt, wg, tpc>>
                    => RoundMeasure' < RoundMeasure
             /\ hpc' = "idle" => (wg = 0 /\ \A i \in DOMAIN tpc : tpc[i] = "done")]_vars

C18_Witness ==
    /\ hpc = "idle" /\ Len(hist) = 2
    /\ hist[1] = [n |-> 2, inv |-> 2]
    /\ hist[2] = [n |-> 2, inv |-> 2]
    /\ wg = 0

\* The Run calls made in the handler calls that have returned.
TotalInvocations == SumSeq([r \in DOMAIN hist |-> hist[r].inv])

\* C19: no debouncing and no overlap: a handler call takes exactly one of
\* the events waiting, none starts while another runs, every call that
\* returned invoked each of its observers once, and so after k calls over
\* an observer list of N entries throughout, k*N invocations were made.
C19_OneRoundPerEvent ==
    /\ [](hpc = "loop" => ~ENABLED HandleEvent)
    /\ [](/\ Len(hist) = rounds
          /\ \A r \in DOMAIN hist : hist[r].inv = hist[r].n
          /\ \A N \in {hist[r].n : r \in DOMAIN hist} :
                (\A r \in DOMAIN hist : hist[r].n = N)
                    => TotalInvocations = rounds * N)
    /\ [][/\ (hpc = "idle" /\ hpc' = "loop") =>
                (pending' = pending - 1 /\ rounds' = rounds)
          /\ (hpc = "loop" /\ hpc' = "idle") =>
                (pending' = pending /\ rounds' = rounds + 1)]_vars

C19_Witness ==
    /\ hpc = "loop" /\ pending = 0 /\ rounds = 1
    /\ hist = <<[n |-> 2, inv |-> 2]>>
    /\ Len(snap) = 2 /\ SumSeq(invoked) = 2
    /\ ENABLED HandlerReturn

\* C20: a round works on the observer list as it stood when the round
\* started: the list it ranges over does not change while it runs, an
\* observer registered meanwhile gets no task in it, the handler returns
\* after exactly that many invocations, and every later round starts from
\* the list with the new observer in it.
C20_RoundUsesSnapshot ==
    /\ [](hpc = "loop" =>
             /\ Len(snap) <= Len(c[1].observers)
             /\ SubSeq(c[1].observers, 1, Len(snap)) = snap
             /\ DOMAIN tpc = DOMAIN snap
             /\ DOMAIN invoked = DOMAIN snap
             /\ wg <= Len(snap))
    /\ [][/\ (hpc = "loop" /\ hpc' = "loop") => snap' = snap
          /\ (hpc = "idle" /\ hpc' = "loop") => snap' = c[1].observers
          /\ (hpc = "loop" /\ hpc' = "idle") =>
                /\ SumSeq(invoked) = Len(snap)
                /\ \A i \in DOMAIN snap : tpc[i] = "done"]_vars

C20_Witness ==
    /\ hpc = "loop" /\ Len(snap) = 1 /\ Len(c[1].observers) = 2
    /\ tpc = <<"done">> /\ invoked = <<1>> /\ wg = 0
    /\ rounds = 1 /\ hist = <<[n |-> 0, inv |-> 0]>>
    /\ ENABLED HandlerReturn

(***************************************************************************)
(* Properties of the containers Load and LoadEmbed build (under SpecLoad)  *)
(***************************************************************************)
\* The sources handed to the container: for Load the paths that exist.
Given == IF call.op = "Load" THEN Existing(fs, call.paths) ELSE call.paths

\* The positions of the given sources that read and parse.
Readable == {i \in DOMAIN Given : fs[Given[i]].kind = "ok"}

ReadableDefining(key) == {i \in Readable : Gives(fs[Given[i]].doc, key) # NoValue}

LastReadableDefining(key) ==
    CHOOSE i \in ReadableDefining(key) : \A j \in ReadableDefining(key) : j <= i

\* C21: a file source that fails to read or parse contributes no key and
\* stops nothing: every given file is still read, in order, each failure
\* is logged, and the store holds for every key what the readable sources
\* merged in order give it (the empty store when none is readable).
C21_FailedSourceSkipped ==
    (call.op = "Load" /\ c # <<>>) =>
        /\ reads = Given
        /\ c[1].warnings = Cardinality(DOMAIN Given \ Readable)
        /\ \A key \in KeyPaths :
              Get(c[1], key) =
                  IF ReadableDefining(key) = {} THEN NoValue
                  ELSE IF \E j \in ReadableDefining(key) :
                              Gives(fs[Given[j]].doc, key) = "<map>"
                       THEN "<map>"
                       ELSE Gives(fs[Given[LastReadableDefining(key)]].doc, key)

C21_Witness ==
    /\ call.op = "Load" /\ c # <<>> /\ Len(Given) = 3
    /\ fs[Given[1]] = OkFile(SecondDoc)
    /\ fs[Given[2]].kind = "malformed"
    /\ fs[Given[3]] = OkFile(FirstDoc)
    /\ Get(c[1], <<"yaml", "key">>) = "value"
    /\ Get(c[1], <<"yaml", "more">>) = "value"
    /\ c[1].warnings = 1

\* The reader indices 0, 1, ..., n-1 as identifiers.
ReaderIds(n) == [i \in 1..n |-> ToString(i - 1)]

\* C22: the identity of a container is the identifiers of the sources it
\* was given joined with ';' in load order: the paths for files, the
\* indices from 0 for readers, the empty string for no source, each source
\* named whether or not reading it succeeded.
C22_IdentityJoinsSources ==
    c # <<>> =>
        c[1].ID = IF call.op = "Load" THEN Joined(Given)
                  ELSE Joined(ReaderIds(Len(Given)))

C22_Witness ==
    /\ call.op = "LoadEmbed" /\ c # <<>> /\ Len(Given) = 3
    /\ fs[Given[2]].kind = "malformed"
    /\ c[1].ID = "0;1;2"

(***************************************************************************)
(* Properties of subtree and reader containers and the watch (SpecHeld)    *)
(***************************************************************************)
\* C23: observers registered on a subtree container are never invoked: no
\* watch is armed and no handler registered on the subtree's store, and a
\* round of the parent has tasks for the parent's own observers only, as
\* many Run calls as these at most, however many the subtree holds.
C23_SubtreeObserversNeverRun ==
    /\ (sub # <<>> /\ sub[1].viper # NilViper) =>
            (~sub[1].viper.watching /\ ~sub[1].viper.onConfigChange)
    /\ hpc = "loop" =>
            /\ Len(snap) <= Len(c[1].observers)
            /\ SubSeq(c[1].observers, 1, Len(snap)) = snap
            /\ DOMAIN tpc = DOMAIN snap
            /\ SumSeq(invoked) <= Len(c[1].observers)
    /\ \A r \in DOMAIN hist :
            c # <<>> /\ hist[r].inv <= Len(c[1].observers)

C23_Witness ==
    /\ sub # <<>> /\ subcall.key = <<"yaml">>
    /\ Len(sub[1].observers) = 2
    /\ hpc = "loop" /\ snap = <<Direct("read")>> /\ tpc = <<"done">>
    /\ hist = <<[n |-> 1, inv |-> 1]>>
    /\ ENABLED HandlerReturn

\* C24: a container built from readers (LoadEmbed, through
\* NewReaderContainer) has no watch armed and no handler registered, and
\* whatever observers it holds and whatever happens to the files, no event
\* is queued for it and no round runs.
C24_ReaderContainerNeverWatches ==
    (call.op = "LoadEmbed" /\ c # <<>>) =>
        /\ ~c[1].viper.watching
        /\ ~c[1].viper.onConfigChange
        /\ pending = 0 /\ hpc = "idle" /\ rounds = 0
        /\ ~ENABLED HandleEvent

C24_Witness ==
    /\ call.op = "LoadEmbed" /\ c # <<>> /\ Len(call.paths) = 2
    /\ Len(c[1].observers) = 2
    /\ fs["first.yml"] # OkFile(FirstDoc)
    /\ fs["second.yml"] # OkFile(SecondDoc)
    /\ pending = 0 /\ rounds = 0

=============================================================================
